---- MODULE Spec2Model ----
(***************************************************************************)
(* Model of facenet_sandberg/utils.py: the shape, bounding-box, distance   *)
(* and crop/align helpers of the face preprocessing pipeline.              *)
(*                                                                         *)
(* The module is a library of synchronous functions without shared state.  *)
(* Each function is an operator computing what the Python code computes;   *)
(* one action per function calls it once on inputs drawn from bounded       *)
(* sets and records the call in op / args / result.                        *)
(*                                                                         *)
(* Representation:                                                         *)
(*   - an array is [shape, dtype]; a slice of an array is a view that      *)
(*     also carries the offset of its first row and column;                *)
(*   - a margin is the numerator m of the fraction m / MarginDen;          *)
(*   - what a call produces is a record [exc, kind, value]: exc is the     *)
(*     exception raised ("none" when the call returns), kind tells a       *)
(*     returned value from a returned None.                                *)
(***************************************************************************)
EXTENDS Integers, Sequences, FiniteSets, TLC

VARIABLES op, args, result

vars == <<op, args, result>>

\* ------------------------------------------------------------------ bounds
\* crop is called on images of height and width 0..MaxDim
MaxDim == 3
\* preprocess is called on images of height and width 0..MaxImageDim
MaxImageDim == 17
\* margins are the fractions m / MarginDen
MarginDen == 4
\* fix_mtcnn_bb is called with image extents up to MaxBB
MaxBB == 2
\* fix_image is called on arrays of up to MaxNdim axes of length 0..MaxAxis
MaxNdim == 4
MaxAxis == 4
\* embedding_distance_bulk is called on 1..MaxRows rows
MaxRows == 2

\* ----------------------------------------------------------- Python values
None == <<>>

Return(v) == [exc |-> "none", kind |-> "value", value |-> v]

ReturnNone == [exc |-> "none", kind |-> "None", value |-> None]

Raise(e) == [exc |-> e, kind |-> "raised", value |-> None]

\* max(a, b), np.maximum(a, b)
Max(a, b) == IF a >= b THEN a ELSE b

\* min(a, b), np.minimum(a, b)
Min(a, b) == IF a <= b THEN a ELSE b

\* int(num / den) for den > 0: Python's int() truncates toward zero
Trunc(num, den) == IF num >= 0 THEN num \div den ELSE -((-num) \div den)

\* the index i of a slice bound on an axis of length n, as Python normalises it
SliceIndex(i, n) == IF i < 0 THEN Max(i + n, 0) ELSE Min(i, n)

\* the number of elements of the slice [lo:hi] of an axis of length n
SliceLen(lo, hi, n) == Max(SliceIndex(hi, n) - SliceIndex(lo, n), 0)

Array(shape, dtype) == [shape |-> shape, dtype |-> dtype]

ndim(image) == Len(image.shape)

\* ------------------------------------------------------------ shape repair
\* image[:, :, np.newaxis]: two slices need two axes
NewAxis(image) ==
    IF ndim(image) < 2
    THEN Raise("IndexError")
    ELSE Return(Array(SubSeq(image.shape, 1, 2) \o <<1>>
                        \o SubSeq(image.shape, 3, ndim(image)),
                      image.dtype))

add_color(image) ==
    IF ndim(image) # 2
    THEN Raise("ValueError")
    ELSE LET w == image.shape[1]
             h == image.shape[2]
         IN Return(Array(<<w, h, 3>>, "uint8"))

\* image[:, :, 0:3]: three indices need three axes
FirstThreeChannels(image) ==
    IF ndim(image) < 3
    THEN Raise("IndexError")
    ELSE Return(Array([image.shape EXCEPT ![3] = SliceLen(0, 3, @)],
                      image.dtype))

fix_image(image) ==
    LET r1 == IF ndim(image) < 2 THEN NewAxis(image) ELSE Return(image)
    IN IF r1.exc # "none"
       THEN r1
       ELSE LET r2 == IF ndim(r1.value) = 2
                      THEN add_color(r1.value)
                      ELSE Return(r1.value)
            IN IF r2.exc # "none"
               THEN r2
               ELSE FirstThreeChannels(r2.value)

\* ------------------------------------------------- bounding-box correction
fix_mtcnn_bb_unclamped_x2(max_y, max_x, x1, y1, dx, dy) ==
    LET x2 == x1 + dx
        y2 == y1 + dy
    IN Return(<<Max(Min(x1, max_x), 0),
                Max(Min(y1, max_y), 0),
                Max(x2, 0),
                Max(Min(y2, max_y), 0)>>)

fix_mtcnn_bb_x1_floor_only(max_y, max_x, x1, y1, dx, dy) ==
    LET x2 == x1 + dx
        y2 == y1 + dy
    IN Return(<<Max(x1, 0),
                Max(Min(y1, max_y), 0),
                Max(Min(x2, max_x), 0),
                Max(Min(y2, max_y), 0)>>)

fix_mtcnn_bb(max_y, max_x, x1, y1, dx, dy) ==
    LET x2 == x1 + dx
        y2 == y1 + dy
    IN Return(<<Max(Min(x1, max_x), 0),
                Max(Min(y1, max_y), 0),
                Max(Min(x2, max_x), 0),
                Max(Min(y2, max_y), 0)>>)

\* ------------------------------------------------------- embedding distance
DistanceMetric == {"EUCLIDEAN_SQUARED", "ANGULAR_DISTANCE"}

RECURSIVE SumProducts(_, _, _)
\* sum over the first n components of u[i] * v[i]
SumProducts(u, v, n) ==
    IF n = 0 THEN 0 ELSE SumProducts(u, v, n - 1) + u[n] * v[n]

Dot(u, v) == SumProducts(u, v, Len(u))

Diff(u, v) == [i \in 1..Len(u) |-> u[i] - v[i]]

\* np.square(paired_distances(X, Y, metric='euclidean')): per row pair, the
\* square of the Euclidean distance, i.e. the sum of the squared differences
SquaredEuclidean(X, Y) ==
    [i \in 1..Len(X) |-> <<"squared_euclidean", Dot(Diff(X[i], Y[i]), Diff(X[i], Y[i]))>>]

\* np.arccos(1 - paired_distances(X, Y, metric='cosine')) / math.pi: per row
\* pair, the angle fixed by the pair's dot product and squared norms; it is
\* kept as those three numbers, the arccos is not evaluated
Angular(X, Y) ==
    [i \in 1..Len(X) |->
        <<"arccos_over_pi", Dot(X[i], Y[i]), Dot(X[i], X[i]), Dot(Y[i], Y[i])>>]

embedding_distance_bulk_default_euclidean(embeddings1, embeddings2, distance_metric) ==
    IF distance_metric = "ANGULAR_DISTANCE"
    THEN Return(Angular(embeddings1, embeddings2))
    ELSE Return(SquaredEuclidean(embeddings1, embeddings2))

embedding_distance_bulk(embeddings1, embeddings2, distance_metric) ==
    IF distance_metric = "EUCLIDEAN_SQUARED"
    THEN Return(SquaredEuclidean(embeddings1, embeddings2))
    ELSE IF distance_metric = "ANGULAR_DISTANCE"
    THEN Return(Angular(embeddings1, embeddings2))
    ELSE ReturnNone

\* embedding.reshape(1, -1): the vector as a matrix of one row
Reshape1(embedding) == <<embedding>>

\* r[0] on what a call produced: None is not subscriptable
Subscript0(r) ==
    IF r.exc # "none" THEN r
    ELSE IF r.kind = "None" THEN Raise("TypeError")
    ELSE IF Len(r.value) = 0 THEN Raise("IndexError")
    ELSE Return(r.value[1])

embedding_distance_none_passed_on(embedding_1, embedding_2, distance_metric) ==
    LET r == embedding_distance_bulk(Reshape1(embedding_1), Reshape1(embedding_2),
                                     distance_metric)
    IN IF r.kind = "None" THEN r ELSE Subscript0(r)

embedding_distance(embedding_1, embedding_2, distance_metric) ==
    Subscript0(embedding_distance_bulk(Reshape1(embedding_1), Reshape1(embedding_2),
                                       distance_metric))

\* --------------------------------------------------------------------- crop
margin_check_lower_only(margin) ==
    IF margin < 0 THEN Raise("ValueError") ELSE Return(None)

\* the two raise statements at the head of crop
margin_check(margin) ==
    IF margin < 0 THEN Raise("ValueError")
    ELSE IF margin > MarginDen THEN Raise("ValueError")
    ELSE Return(None)

expand_box_unclamped_high(img_height, img_width, bb, margin) ==
    LET den == 2 * MarginDen
        margin_height == (bb[4] - bb[2]) * margin
        margin_width == (bb[3] - bb[1]) * margin
    IN <<Trunc(Max(bb[1] * den - margin_width, 0), den),
         Trunc(Max(bb[2] * den - margin_height, 0), den),
         Trunc(bb[3] * den + margin_width, den),
         Trunc(bb[4] * den + margin_height, den)>>

expand_box_margin_inwards(img_height, img_width, bb, margin) ==
    LET den == 2 * MarginDen
        margin_height == (bb[4] - bb[2]) * margin
        margin_width == (bb[3] - bb[1]) * margin
    IN <<Trunc(Max(bb[1] * den + margin_width, 0), den),
         Trunc(Max(bb[2] * den + margin_height, 0), den),
         Trunc(Min(bb[3] * den - margin_width, img_width * den), den),
         Trunc(Min(bb[4] * den - margin_height, img_height * den), den)>>

\* the box crop realises: half the margin added on each side, clamped to the
\* image, truncated by int(). margin_height and margin_width are the
\* numerators of the code's values over the denominator 2 * MarginDen
expand_box(img_height, img_width, bb, margin) ==
    LET den == 2 * MarginDen
        margin_height == (bb[4] - bb[2]) * margin
        margin_width == (bb[3] - bb[1]) * margin
    IN <<Trunc(Max(bb[1] * den - margin_width, 0), den),
         Trunc(Max(bb[2] * den - margin_height, 0), den),
         Trunc(Min(bb[3] * den + margin_width, img_width * den), den),
         Trunc(Min(bb[4] * den + margin_height, img_height * den), den)>>

\* image[y0:y1, x0:x1, :]
SubArray(image, y0, y1, x0, x1) ==
    IF ndim(image) < 3
    THEN Raise("IndexError")
    ELSE Return([kind |-> "view",
                 shape |-> [image.shape EXCEPT
                              ![1] = SliceLen(y0, y1, @),
                              ![2] = SliceLen(x0, x1, @)],
                 origin |-> <<SliceIndex(y0, image.shape[1]),
                              SliceIndex(x0, image.shape[2])>>,
                 dtype |-> image.dtype])

crop(image, bb, margin) ==
    IF margin_check(margin).exc # "none"
    THEN margin_check(margin)
    ELSE IF ndim(image) < 2
    THEN Raise("IndexError")
    ELSE LET img_height == image.shape[1]
             img_width == image.shape[2]
             box == expand_box(img_height, img_width, bb, margin)
             sub == SubArray(image, box[2], box[4], box[1], box[3])
         IN IF sub.exc # "none" THEN sub ELSE Return(<<sub.value, box>>)

\* --------------------------------------------------------------- preprocess
\* the canonical landmark coordinates, in units of 1/10000 pixel
ReferencePoints ==
    <<<<382946, 516963>>,
      <<735318, 515014>>,
      <<560252, 717366>>,
      <<415493, 923655>>,
      <<707299, 922041>>>>

\* the center-crop box preprocess derives; 0.0625 is 625/10000
CenterCropBox(image) ==
    LET image_height == image.shape[1]
        image_width == image.shape[2]
        b0 == Trunc(image_height * 625, 10000)
        b1 == Trunc(image_width * 625, 10000)
    IN <<b0, b1, image.shape[2] - b0, image.shape[1] - b1>>

\* the similarity transform estimated from the landmarks to the reference
\* points shifted by (dx, dy); kept as the two point sets it is estimated from
EstimateTransform(landmark, margin_height, margin_width) ==
    LET dx == (margin_width - 112) * 5000
        dy == (margin_height - 112) * 5000
    IN [dst |-> landmark,
        src |-> [i \in 1..Len(ReferencePoints) |->
                    <<ReferencePoints[i][1] + dx, ReferencePoints[i][2] + dy>>]]

preprocess_dispatch_on_bbox(image, desired_height, desired_width, margin, bbox, landmark) ==
    LET margin_height == Trunc(desired_height * (MarginDen + margin), MarginDen)
        margin_width == Trunc(desired_width * (MarginDen + margin), MarginDen)
        M == IF landmark # None
             THEN EstimateTransform(landmark, margin_height, margin_width)
             ELSE None
        box == IF bbox = None THEN CenterCropBox(image) ELSE bbox
    IN IF bbox # None \/ M = None
       THEN LET r == crop(image, box, margin)
            IN [exc |-> r.exc,
                kind |-> r.kind,
                value |-> IF r.exc = "none" THEN r.value[1] ELSE None,
                calls |-> <<[fn |-> "crop", bb |-> box, margin |-> margin]>>]
       ELSE [exc |-> "none",
             kind |-> "value",
             value |-> [kind |-> "warped", image |-> image, M |-> M,
                        dsize |-> <<margin_height, margin_width>>],
             calls |-> <<[fn |-> "warpAffine"]>>]

\* calls lists the crop / warp calls preprocess makes, with the box given to crop
preprocess(image, desired_height, desired_width, margin, bbox, landmark) ==
    LET margin_height == Trunc(desired_height * (MarginDen + margin), MarginDen)
        margin_width == Trunc(desired_width * (MarginDen + margin), MarginDen)
        M == IF landmark # None
             THEN EstimateTransform(landmark, margin_height, margin_width)
             ELSE None
        box == IF bbox = None THEN CenterCropBox(image) ELSE bbox
    IN IF M = None
       THEN LET r == crop(image, box, margin)
            IN [exc |-> r.exc,
                kind |-> r.kind,
                value |-> IF r.exc = "none" THEN r.value[1] ELSE None,
                calls |-> <<[fn |-> "crop", bb |-> box, margin |-> margin]>>]
       ELSE [exc |-> "none",
             kind |-> "value",
             value |-> [kind |-> "warped", image |-> image, M |-> M,
                        dsize |-> <<margin_height, margin_width>>],
             calls |-> <<[fn |-> "warpAffine"]>>]

\* ------------------------------------------------------------------ inputs
Shapes == UNION {[1..n -> 0..MaxAxis] : n \in 0..MaxNdim}

FixImageInputs == {Array(s, d) : s \in Shapes, d \in {"uint8", "float64"}}

BBExtents == -1..MaxBB

BBCorners == -1..(MaxBB + 1)

BBDeltas == -2..(MaxBB + 1)

\* margins from -2/MarginDen to 1 + 2/MarginDen
Margins == -2..(MarginDen + 2)

CropImages ==
    {Array(<<h, w>>, "uint8") : h \in 0..MaxDim, w \in 0..MaxDim}
    \cup {Array(<<h, w, 3>>, "uint8") : h \in 0..MaxDim, w \in 0..MaxDim}

CropBoxes == {<<x0, y0, x1, y1>> : x0 \in 0..MaxDim, y0 \in 0..MaxDim,
                                   x1 \in 0..MaxDim, y1 \in 0..MaxDim}

MetricSelectors == DistanceMetric \cup {"COSINE", "None"}

EmbeddingInputs ==
    {<<1, 0, 0>>, <<0, 1, 0>>, <<0, 0, 0>>, <<1, 1, 0>>, <<-1, 0, 0>>}

EmbeddingMatrices == UNION {[1..n -> EmbeddingInputs] : n \in 1..MaxRows}

PreprocessImages ==
    {Array(<<h, w, 3>>, "uint8") : h \in 0..MaxImageDim, w \in 0..MaxImageDim}

BBoxInputs == {None, <<2, 3, 10, 12>>, <<0, 0, 16, 17>>}

LandmarkInputs ==
    {None,
     <<<<30, 50>>, <<70, 50>>, <<50, 70>>, <<35, 90>>, <<65, 90>>>>,
     <<<<3, 5>>, <<9, 4>>, <<6, 8>>, <<4, 11>>, <<8, 10>>>>}

DesiredSizes == {<<112, 112>>, <<160, 120>>}

\* ----------------------------------------------------------------- actions
Init ==
    /\ op = "none"
    /\ args = None
    /\ result = None

CallFixImage ==
    /\ op = "none"
    /\ \E image \in FixImageInputs :
         /\ op' = "fix_image"
         /\ args' = [image |-> image]
         /\ result' = fix_image(image)

CallFixMtcnnBb ==
    /\ op = "none"
    /\ \E max_y \in BBExtents, max_x \in BBExtents,
          x1 \in BBCorners, y1 \in BBCorners,
          dx \in BBDeltas, dy \in BBDeltas :
         /\ op' = "fix_mtcnn_bb"
         /\ args' = [max_y |-> max_y, max_x |-> max_x, x1 |-> x1, y1 |-> y1,
                     dx |-> dx, dy |-> dy]
         /\ result' = fix_mtcnn_bb(max_y, max_x, x1, y1, dx, dy)

CallEmbeddingDistanceBulk ==
    /\ op = "none"
    /\ \E embeddings1 \in EmbeddingMatrices, embeddings2 \in EmbeddingMatrices,
          distance_metric \in MetricSelectors :
         /\ Len(embeddings1) = Len(embeddings2)
         /\ op' = "embedding_distance_bulk"
         /\ args' = [embeddings1 |-> embeddings1, embeddings2 |-> embeddings2,
                     distance_metric |-> distance_metric]
         /\ result' = embedding_distance_bulk(embeddings1, embeddings2, distance_metric)

CallEmbeddingDistance ==
    /\ op = "none"
    /\ \E embedding_1 \in EmbeddingInputs, embedding_2 \in EmbeddingInputs,
          distance_metric \in MetricSelectors :
         /\ op' = "embedding_distance"
         /\ args' = [embedding_1 |-> embedding_1, embedding_2 |-> embedding_2,
                     distance_metric |-> distance_metric]
         /\ result' = embedding_distance(embedding_1, embedding_2, distance_metric)

CallCrop ==
    /\ op = "none"
    /\ \E image \in CropImages, bb \in CropBoxes, margin \in Margins :
         /\ op' = "crop"
         /\ args' = [image |-> image, bb |-> bb, margin |-> margin]
         /\ result' = crop(image, bb, margin)

CallPreprocess ==
    /\ op = "none"
    /\ \E image \in PreprocessImages, size \in DesiredSizes, margin \in Margins,
          bbox \in BBoxInputs, landmark \in LandmarkInputs :
         /\ op' = "preprocess"
         /\ args' = [image |-> image, desired_height |-> size[1],
                     desired_width |-> size[2], margin |-> margin,
                     bbox |-> bbox, landmark |-> landmark]
         /\ result' = preprocess(image, size[1], size[2], margin, bbox, landmark)

Next ==
    \/ CallFixImage
    \/ CallFixMtcnnBb
    \/ CallEmbeddingDistanceBulk
    \/ CallEmbeddingDistance
    \/ CallCrop
    \/ CallPreprocess

Spec == Init /\ [][Next]_vars

\* ------------------------------------------------------------------ claims
\* an image in (H, W, C) format
IsHWC(image) == ndim(image) = 3

\* x0 <= x1, y0 <= y1 and the four coordinates within the image
BoxWithinImage(bb, image) ==
    /\ bb[1] <= bb[3]
    /\ bb[2] <= bb[4]
    /\ 0 <= bb[1] /\ bb[3] <= image.shape[2]
    /\ 0 <= bb[2] /\ bb[4] <= image.shape[1]

CropInContract ==
    /\ op = "crop"
    /\ IsHWC(args.image)
    /\ args.margin \in 0..MarginDen
    /\ BoxWithinImage(args.bb, args.image)

\* C1: for a margin in [0,1] and a box within the image bounds, the box crop
\* returns satisfies 0 <= x0' <= x1' <= W and 0 <= y0' <= y1' <= H.
C1_CropBoxWithinImage ==
    CropInContract =>
        /\ result.exc = "none"
        /\ LET b == result.value[2]
           IN /\ 0 <= b[1] /\ b[1] <= b[3] /\ b[3] <= args.image.shape[2]
              /\ 0 <= b[2] /\ b[2] <= b[4] /\ b[4] <= args.image.shape[1]

\* the full-image box with margin 1: both far corners are clamped to the image
C1_Witness ==
    /\ CropInContract
    /\ args.image.shape = <<2, 3, 3>>
    /\ args.bb = <<0, 0, 3, 2>>
    /\ args.margin = MarginDen
    /\ result.exc = "none"
    /\ result.value[2] = <<0, 0, 3, 2>>

\* C2: crop raises ValueError, and returns nothing, for every margin < 0 and
\* every margin > 1 whatever the image and the box; for every margin in [0,1],
\* 0 and 1 included, it raises no margin error.
C2_CropMarginError ==
    op = "crop" =>
        /\ (args.margin < 0 \/ args.margin > MarginDen) => result = Raise("ValueError")
        /\ args.margin \in 0..MarginDen => result.exc # "ValueError"

\* a margin just above 1 on an array that could not be sliced anyway
C2_Witness ==
    /\ op = "crop"
    /\ args.margin = MarginDen + 1
    /\ ~IsHWC(args.image)
    /\ result = Raise("ValueError")

\* C3 as stated: for all integer max_y, max_x, x1, y1, dx, dy the coordinates
\* fix_mtcnn_bb returns lie in [0, max_x] and [0, max_y].
C3_Original ==
    op = "fix_mtcnn_bb" =>
        /\ result.exc = "none"
        /\ \A i \in {1, 3} : 0 <= result.value[i] /\ result.value[i] <= args.max_x
        /\ \A i \in {2, 4} : 0 <= result.value[i] /\ result.value[i] <= args.max_y

\* C3 amended: for max_y >= 0 and max_x >= 0 and all integer x1, y1, dx, dy the
\* coordinates fix_mtcnn_bb returns lie in [0, max_x] and [0, max_y].
C3_ClampedWithinExtent ==
    (op = "fix_mtcnn_bb" /\ args.max_x >= 0 /\ args.max_y >= 0) =>
        /\ result.exc = "none"
        /\ \A i \in {1, 3} : 0 <= result.value[i] /\ result.value[i] <= args.max_x
        /\ \A i \in {2, 4} : 0 <= result.value[i] /\ result.value[i] <= args.max_y

\* an oversized dx and a negative y1 and dy: x2 is clamped down, y1 and y2 up
C3_Witness ==
    /\ op = "fix_mtcnn_bb"
    /\ args.max_x = 2 /\ args.max_y = 2
    /\ args.x1 = 1 /\ args.dx = 3
    /\ args.y1 = -1 /\ args.dy = -2
    /\ result.value = <<1, 0, 2, 0>>

\* C4 as stated: for every corner and every pair of deltas the box
\* fix_mtcnn_bb returns has x0 <= x1 and y0 <= y1.
C4_Original ==
    op = "fix_mtcnn_bb" =>
        /\ result.value[1] <= result.value[3]
        /\ result.value[2] <= result.value[4]

\* C4 amended: for every corner and every pair of deltas dx >= 0, dy >= 0 the
\* box fix_mtcnn_bb returns has x0 <= x1 and y0 <= y1.
C4_OrderedForNonNegativeDeltas ==
    (op = "fix_mtcnn_bb" /\ args.dx >= 0 /\ args.dy >= 0) =>
        /\ result.value[1] <= result.value[3]
        /\ result.value[2] <= result.value[4]

\* a corner right of the image with a positive width: both x clamp to max_x
C4_Witness ==
    /\ op = "fix_mtcnn_bb"
    /\ args.max_x = 2 /\ args.x1 = 3 /\ args.dx = 1
    /\ args.y1 = 0 /\ args.dy = 1 /\ args.max_y = 2
    /\ result.value = <<2, 0, 2, 1>>

\* C5: for every 1-, 2- or 3-dimensional input array (any number of channels)
\* fix_image returns, without error, a 3-dimensional array with exactly 3
\* channels and the input's height and width.
C5_FixImageThreeChannels ==
    (op = "fix_image" /\ ndim(args.image) \in 1..3) =>
        /\ result.exc = "none"
        /\ ndim(result.value) = 3
        /\ result.value.shape[3] = 3
        /\ result.value.shape[1] = args.image.shape[1]
        /\ ndim(args.image) >= 2 => result.value.shape[2] = args.image.shape[2]

\* the box the claim expects preprocess to derive for an H x W image
ClaimedCenterCropBox(image) ==
    LET x0 == (625 * image.shape[2]) \div 10000
        y0 == (625 * image.shape[1]) \div 10000
    IN <<x0, y0, image.shape[2] - x0, image.shape[1] - y0>>

\* C6: called with neither a box nor landmarks, preprocess passes to crop the
\* box x0 = floor(0.0625 * width), y0 = floor(0.0625 * height), x1 = width - x0,
\* y1 = height - y0, for every image height and width.
C6_CenterCropBox ==
    (op = "preprocess" /\ args.bbox = None /\ args.landmark = None) =>
        /\ Len(result.calls) = 1
        /\ result.calls[1].fn = "crop"
        /\ result.calls[1].bb = ClaimedCenterCropBox(args.image)

\* C7: for a metric selector that is neither EUCLIDEAN_SQUARED nor
\* ANGULAR_DISTANCE embedding_distance_bulk raises nothing and returns no
\* result; for the two supported selectors it returns one distance per row pair.
C7_BulkFallsThrough ==
    op = "embedding_distance_bulk" =>
        IF args.distance_metric \in DistanceMetric
        THEN /\ result.exc = "none"
             /\ result.kind = "value"
             /\ Len(result.value) = Len(args.embeddings1)
        ELSE result = ReturnNone

\* two rows under an unsupported selector
C7_Witness ==
    /\ op = "embedding_distance_bulk"
    /\ args.distance_metric = "COSINE"
    /\ Len(args.embeddings1) = 2
    /\ result.exc = "none"
    /\ result.kind = "None"

\* what the bulk form produces for the single-row reshapes of the two arguments
BulkOfArgs ==
    embedding_distance_bulk(Reshape1(args.embedding_1), Reshape1(args.embedding_2),
                            args.distance_metric)

\* C8 as stated: embedding_distance returns the sole element of the bulk
\* form's result; with an unsupported selector it raises nothing and passes
\* the missing result on to its caller.
C8_Original ==
    op = "embedding_distance" =>
        IF args.distance_metric \in DistanceMetric
        THEN /\ Len(BulkOfArgs.value) = 1
             /\ result = Return(BulkOfArgs.value[1])
        ELSE /\ result.exc = "none"
             /\ result.kind = "None"

\* C8 amended: with a supported selector embedding_distance returns the sole
\* element of the bulk form's result; with an unsupported selector the bulk
\* form returns no result and embedding_distance raises TypeError.
C8_SoleElementOrTypeError ==
    op = "embedding_distance" =>
        IF args.distance_metric \in DistanceMetric
        THEN /\ Len(BulkOfArgs.value) = 1
             /\ result = Return(BulkOfArgs.value[1])
        ELSE /\ BulkOfArgs = ReturnNone
             /\ result = Raise("TypeError")

\* an unsupported selector: the subscript of the missing result raises
C8_Witness ==
    /\ op = "embedding_distance"
    /\ args.distance_metric \notin DistanceMetric
    /\ args.embedding_1 = <<1, 0, 0>>
    /\ args.embedding_2 = <<0, 1, 0>>
    /\ result.exc = "TypeError"

\* C9: with landmarks preprocess returns the warped image, never calls crop,
\* ignores bbox and raises nothing for a margin outside [0,1]; without
\* landmarks it returns the first component of crop(image, box, margin), box
\* being bbox or the derived center-crop box, and applies no warp.
C9_PreprocessTwoPaths ==
    op = "preprocess" =>
        IF args.landmark # None
        THEN /\ result.exc = "none"
             /\ result.value.kind = "warped"
             /\ \A i \in 1..Len(result.calls) : result.calls[i].fn # "crop"
             /\ \A b \in BBoxInputs :
                    preprocess(args.image, args.desired_height, args.desired_width,
                               args.margin, b, args.landmark) = result
        ELSE LET box == IF args.bbox = None THEN CenterCropBox(args.image) ELSE args.bbox
                 c == crop(args.image, box, args.margin)
             IN /\ \A i \in 1..Len(result.calls) : result.calls[i].fn # "warpAffine"
                /\ result.exc = c.exc
                /\ c.exc = "none" =>
                       /\ result.value = c.value[1]
                       /\ result.value.kind = "view"

\* landmarks and a box supplied with a margin above 1: warped, no error
C9_Witness ==
    /\ op = "preprocess"
    /\ args.landmark # None
    /\ args.bbox = <<2, 3, 10, 12>>
    /\ args.margin > MarginDen
    /\ result.exc = "none"
    /\ result.value.kind = "warped"

\* C10: for a margin in [0,1] and an integer box within the image bounds the
\* returned box contains the input box, the returned sub-array has
\* (y1' - y0') rows and (x1' - x0') columns, and with margin 0 the returned
\* box is the input box.
C10_CropContainsBox ==
    CropInContract =>
        /\ result.exc = "none"
        /\ LET b == result.value[2]
               sub == result.value[1]
           IN /\ b[1] <= args.bb[1] /\ b[2] <= args.bb[2]
              /\ b[3] >= args.bb[3] /\ b[4] >= args.bb[4]
              /\ sub.shape[1] = b[4] - b[2]
              /\ sub.shape[2] = b[3] - b[1]
              /\ args.margin = 0 => b = args.bb

\* a 2 x 2 box grown by margin 1 to 4 x 4 inside a 3 x 3 image, cut at the image
C10_Witness ==
    /\ CropInContract
    /\ args.image.shape = <<3, 3, 3>>
    /\ args.bb = <<1, 1, 3, 3>>
    /\ args.margin = MarginDen
    /\ result.exc = "none"
    /\ result.value[2] = <<0, 0, 3, 3>>
    /\ result.value[1].shape = <<3, 3, 3>>

====
